---- MODULE Spec2Model ----
(***************************************************************************)
(* Model of src/app.py: the Flask handler receber_dados of the Kobo ->     *)
(* Notion/Drive webhook, its helpers (query_notion_database,               *)
(* obter_obra_id, gerar_titulo, obter_usuario_por_login,                   *)
(* upload_para_drive) and the three external stores they act on: the       *)
(* Notion databases, the scratch directory "fotos_recebidas" and the Drive *)
(* folder.  Every request is a process with a program counter; a step is   *)
(* the code between two accesses to a store shared with other requests.    *)
(***************************************************************************)
EXTENDS Integers, Sequences, FiniteSets, TLC

\* ------------------------------------------------------------------ bounds
NumReqs == 2          \* requests handled in one behaviour
MaxAtt == 3           \* longest `_attachments` list of a payload
MaxConcAtt == 1       \* longest `_attachments` list of requests that overlap in time
MaxHdr == 3           \* longest Authorization header (in symbols) of AuthSpec
MaxTok == 2           \* longest body `token` (in symbols) of AuthSpec

Reqs == 1..NumReqs

\* ------------------------------------------------------------ text values
\* A text is a sequence of symbols.  BEARER stands for the seven characters
\* 'Bearer ' (l.168); the other symbols are one character each.
BEARER == "Bearer "
Symbols == {BEARER, "s", "x"}
KOBO_TOKEN == <<"s", "s">>
\* Python's None where a text is expected; where a page or file id is
\* expected, None is 0 (ids start at 1).
None == <<"None">>
NoId == 0

RECURSIVE TextsUpTo(_)
TextsUpTo(n) ==
    IF n = 0 THEN {<<>>}
    ELSE LET shorter == TextsUpTo(n - 1)
         IN  shorter \cup {Append(t, c) : t \in {u \in shorter : Len(u) = n - 1}, c \in Symbols}

\* str.replace(old, '', 1) with old = 'Bearer ': drops the FIRST occurrence
\* of the substring wherever it stands (l.168).
RECURSIVE ReplaceFirst(_)
ReplaceFirst(h) ==
    IF h = <<>> THEN <<>>
    ELSE IF Head(h) = BEARER THEN Tail(h)
    ELSE <<Head(h)>> \o ReplaceFirst(Tail(h))

\* Python truthiness of an Optional[str]: None and '' are falsy.
Truthy(t) == t # None /\ t # <<>>

\* l.167-168: token = auth_header.replace('Bearer ', '', 1) if auth_header
\*            else dados.get('token')
TokenOf(auth_header, body_token) ==
    IF Truthy(auth_header) THEN ReplaceFirst(auth_header) ELSE body_token

\* l.169: if token and token != KOBO_TOKEN: -> 401
TokenRejected(auth_header, body_token) ==
    LET token == TokenOf(auth_header, body_token)
    IN  Truthy(token) /\ token # KOBO_TOKEN


\* ------------------------------------------------------------- the payload
\* What request.get_json() is given (l.163): a body that is no JSON text, no
\* body at all, the JSON object {}, a JSON object with fields, or a non-empty
\* JSON array (a value that is truthy at l.164 and has no method `get`).
Kinds == {"malformed", "absent", "empty", "object", "array"}

\* dados.get("obra", ""): "" stands for a missing or empty field.  "o1" is
\* the title of a page of NOTION_DB_OBRAS, "o2" is the title of none.
ObraNames == {"", "o1", "o2"}
Logins == {"ana", "bia"}

\* attachment.get("filename"): NoName is a missing or empty filename; a
\* filename is <<directory, base name>>.
NoName == <<>>
Filenames == {<<"a", "p">>}
Basename(filename) == filename[2]
Basenames == {Basename(f) : f \in Filenames}

RECURSIVE AttsUpTo(_)
AttsUpTo(n) ==
    IF n = 0 THEN {<<>>}
    ELSE LET shorter == AttsUpTo(n - 1)
         IN  shorter \cup {Append(t, a) : t \in {u \in shorter : Len(u) = n - 1},
                                          a \in Filenames \cup {NoName}}

NoPayload == [kind |-> "absent", obra |-> "", login |-> "ana", atts |-> <<>>]
Payloads ==
    {[NoPayload EXCEPT !.kind = k] : k \in Kinds \ {"object"}}
    \cup [kind : {"object"}, obra : ObraNames, login : Logins, atts : AttsUpTo(MaxAtt)]

\* The Authorization headers and body tokens a request of the pipeline
\* carries: absent, the secret, the secret behind 'Bearer ', another token.
AuthHeaders == {None, KOBO_TOKEN, <<BEARER>> \o KOBO_TOKEN, <<BEARER, "x">>}
BodyTokens == {None, KOBO_TOKEN, <<"x">>}

\* -------------------------------------------------------------- the stores
\* The Notion query endpoint answers with one page of at most 100 rows and a
\* next_cursor; query_notion_database sends neither page_size nor start_cursor
\* and reads that one answer (l.65-68).
PageSize == 100
PreCounts == {0, 1, 100} \* Records that exist before the first request

VARIABLES
    pc,           \* per request: where its handler stands
    req,          \* per request: the payload (dados)
    resp,         \* per request: the response, status 0 while none is sent
    obra_id, titulo, usuario_id, idx, link, links_fotos,   \* locals of receber_dados
    consulta,     \* per request: how its latest query_notion_database call was answered
                  \* (the helper's local `response`), "none" from the request's next step on
    enviados,     \* per request and attachment: the Drive file id its upload created, 0 if none
    fx,           \* per request: the side effects performed so far
    obras,        \* NOTION_DB_OBRAS: titles, a page's id is its index
    usuarios,     \* NOTION_DB_USUARIOS: titles, a page's id is its index
    preCount,     \* NOTION_DB_APONTAMENTOS: Records of work site 1 that exist initially
    apontamentos, \* NOTION_DB_APONTAMENTOS: the Records created since
    dirExists,    \* whether the directory "fotos_recebidas" exists
    arquivos,     \* scratch files: base name -> request whose download wrote it, 0 if absent
    drive,        \* files of the Drive folder, a file's id is its index
    a_hdr, a_tok, a_res,  \* AuthSpec: header, body token, outcome of the token check
    k_user, k_pass, k_media,  \* FetchSpec: the environment's KOBO_USERNAME, KOBO_PASSWORD,
                              \* KOBO_MEDIA_TOKEN (None when not set)
    d_att,        \* FetchSpec: one element of `_attachments`
    d_get         \* FetchSpec: the requests.get call made for it, NoGet while none is

locals == <<obra_id, titulo, usuario_id, idx, link, links_fotos, consulta, enviados>>
notion == <<obras, usuarios, preCount, apontamentos>>
disk == <<dirExists, arquivos>>
fetchv == <<k_user, k_pass, k_media, d_att, d_get>>
authv == <<a_hdr, a_tok, a_res, fetchv>>
vars == <<pc, req, resp, locals, fx, notion, disk, drive, authv>>

\* usuarios/paginas: Submitter/Record pages created; criar: create-record calls
\* issued; downloads, escritas, uploads: requests.get calls, scratch-file
\* writes, Drive files created
NoFx == [usuarios |-> 0, paginas |-> 0, criar |-> 0, downloads |-> 0, escritas |-> 0,
         uploads |-> 0]
NoResp == [status |-> 0, body |-> None]

Parado ==
    /\ pc = [r \in Reqs |-> "idle"]
    /\ req = [r \in Reqs |-> NoPayload]
    /\ resp = [r \in Reqs |-> NoResp]
    /\ obra_id = [r \in Reqs |-> NoId]
    /\ titulo = [r \in Reqs |-> None]
    /\ usuario_id = [r \in Reqs |-> NoId]
    /\ idx = [r \in Reqs |-> 1]
    /\ link = [r \in Reqs |-> 0]
    /\ links_fotos = [r \in Reqs |-> <<>>]
    /\ consulta = [r \in Reqs |-> "none"]
    /\ enviados = [r \in Reqs |-> <<>>]
    /\ fx = [r \in Reqs |-> NoFx]
    /\ obras = <<"o1">>
    /\ usuarios = <<>>
    /\ preCount \in PreCounts
    /\ apontamentos = <<>>
    /\ dirExists = FALSE
    /\ arquivos = [b \in Basenames |-> 0]
    /\ drive = <<>>

NoGet == [url |-> None, auth |-> None]
NoAtt == [filename |-> NoName, download_url |-> None]

\* The variables of FetchSpec in the other specifications: nothing configured,
\* no attachment fetched
SemFetch == k_user = None /\ k_pass = None /\ k_media = None /\ d_att = NoAtt /\ d_get = NoGet

Init == Parado /\ a_hdr = None /\ a_tok = None /\ a_res = "unused" /\ SemFetch


\* ------------------------------------------------- query_notion_database
\* What one call meets: an answer 200, an answer that is not 200, or an
\* exception of requests.post / response.json().
QueryOutcomes == {"ok", "non200", "raise"}

Min(a, b) == IF a < b THEN a ELSE b

\* QueryNotionDatabase without the test of l.67: the rows are read whatever the
\* status
QueryNotionDatabaseSemStatus(rows, outcome) == SubSeq(rows, 1, Min(Len(rows), PageSize))

\* l.65-71: one POST, no start_cursor: the first page of the matching rows on
\* 200, {"results": []} on any other status.  `rows` are the ids matching the
\* filter, in the order the database returns them.
QueryNotionDatabase(rows, outcome) ==
    IF outcome = "ok" THEN SubSeq(rows, 1, Min(Len(rows), PageSize)) ELSE <<>>

\* {"property": "Título", "title": {"equals": t}} on a database of titles
\* (the ids of the matching pages, ascending)
TitleEquals(db, t) ==
    LET Same(i) == db[i] = t IN SelectSeq([i \in 1..Len(db) |-> i], Same)

\* {"property": "Obras", "relation": {"contains": oid}} on NOTION_DB_APONTAMENTOS:
\* the initial Records (ids 1..preCount, all of work site 1), then the created
\* ones (ids preCount + k).
RelatedTo(oid) ==
    LET Rel(i) == oid \in {apontamentos[i].obras[k] : k \in 1..Len(apontamentos[i].obras)}
        created == SelectSeq([i \in 1..Len(apontamentos) |-> i], Rel)
    IN  (IF oid = 1 THEN [i \in 1..preCount |-> i] ELSE <<>>)
        \o [k \in 1..Len(created) |-> preCount + created[k]]

\* ---------------------------------------------------------- obter_obra_id
\* obter_obra_id whose query carries no filter: every work site matches
ObterObraIdSemFiltro(obra_nome, outcome) ==
    IF outcome = "raise" THEN NoId
    ELSE LET resultados == QueryNotionDatabase([i \in 1..Len(obras) |-> i], outcome)
         IN  IF resultados # <<>> THEN resultados[1] ELSE NoId

\* l.134-145: the id of the first row, None when there is none or on an exception
ObterObraIdResult(obra_nome, outcome) ==
    IF outcome = "raise" THEN NoId
    ELSE LET resultados == QueryNotionDatabase(TitleEquals(obras, obra_nome), outcome)
         IN  IF resultados # <<>> THEN resultados[1] ELSE NoId

\* ----------------------------------------------------------- gerar_titulo
RECURSIVE Digits(_)
Digits(n) == IF n < 10 THEN <<n>> ELSE Append(Digits(n \div 10), n % 10)

\* format(total, "03d"): the decimal digits, zero-filled on the left to width 3
Fmt03d(n) ==
    LET d == Digits(n)
    IN  [i \in 1..(3 - Min(3, Len(d))) |-> 0] \o d

\* l.148-154: f"{obra_nome} - {total:03d}", f"{obra_nome} - 001" on an exception
GerarTituloResult(obra_nome, oid, outcome) ==
    IF outcome = "raise" THEN <<obra_nome, " - ", 0, 0, 1>>
    ELSE LET total == Len(QueryNotionDatabase(RelatedTo(oid), outcome)) + 1
         IN  <<obra_nome, " - ">> \o Fmt03d(total)


\* ---------------------------------------------------------- receber_dados
Erro(status, erro) == [status |-> status, body |-> <<"erro", erro>>]

\* request.get_json() (l.163) on a body of the given kind: the parsed value,
\* None (a body that is not declared JSON, older Flask), or an HTTPException
\* raised inside the try block: BadRequest when the JSON text does not
\* parse, UnsupportedMediaType when the body is not declared JSON.
GetJson(kind) ==
    CASE kind = "malformed" -> {"BadRequest"}
      [] kind = "absent"    -> {"BadRequest", "UnsupportedMediaType", "null"}
      [] OTHER              -> {"value"}

\* Validar that answers a missing work-site name with 404
ValidarObra404(dados, json, auth_header, body_token) ==
    IF json \in {"BadRequest", "UnsupportedMediaType"} THEN Erro(500, json)
    ELSE IF json = "null" \/ dados.kind = "empty" THEN Erro(400, "Dados JSON ausentes")
    ELSE IF dados.kind = "array" /\ ~Truthy(auth_header) THEN Erro(500, "AttributeError")
    ELSE IF TokenRejected(auth_header, body_token) THEN Erro(401, "Token invalido")
    ELSE IF dados.kind = "array" THEN Erro(500, "AttributeError")
    ELSE IF dados.obra = "" THEN Erro(404, "Campo obra obrigatorio")
    ELSE NoResp

\* l.163-174 and the handler of l.216-218: the response that ends the request
\* before any outbound call, NoResp when the request goes on.  On a JSON array
\* dados.get raises AttributeError: at l.168 when there is no Authorization
\* header, at l.172 otherwise.
Validar(dados, json, auth_header, body_token) ==
    IF json \in {"BadRequest", "UnsupportedMediaType"} THEN Erro(500, json)
    ELSE IF json = "null" \/ dados.kind = "empty" THEN Erro(400, "Dados JSON ausentes")
    ELSE IF dados.kind = "array" /\ ~Truthy(auth_header) THEN Erro(500, "AttributeError")
    ELSE IF TokenRejected(auth_header, body_token) THEN Erro(401, "Token invalido")
    ELSE IF dados.kind = "array" THEN Erro(500, "AttributeError")
    ELSE IF dados.obra = "" THEN Erro(400, "Campo obra obrigatorio")
    ELSE NoResp

Responder(r, resposta) ==
    /\ resp' = [resp EXCEPT ![r] = resposta]
    /\ pc' = [pc EXCEPT ![r] = "done"]

EmCurso == {r \in Reqs : pc[r] \notin {"idle", "fim"}}
Quieto == EmCurso = {}

\* The payloads a request arriving now may carry: any when no other request
\* is being handled; requests that overlap in time carry at most MaxConcAtt
\* attachments each.
Admissiveis ==
    IF Quieto THEN Payloads
    ELSE IF \A s \in EmCurso : Len(req[s].atts) <= MaxConcAtt
    THEN {d \in Payloads : Len(d.atts) <= MaxConcAtt}
    ELSE {}

\* l.158-174: a request arrives (requests are numbered in order of arrival)
ReceberDados(r) ==
    /\ pc[r] = "idle"
    /\ \A s \in Reqs : s < r => pc[s] # "idle"
    /\ \E dados \in Admissiveis, auth_header \in AuthHeaders, body_token \in BodyTokens :
       \E json \in GetJson(dados.kind) :
          LET resposta == Validar(dados, json, auth_header, body_token)
          IN  /\ dados.kind # "object" => body_token = None
              /\ req' = [req EXCEPT ![r] = dados]
              /\ IF resposta = NoResp
                 THEN pc' = [pc EXCEPT ![r] = "obter_obra_id"] /\ UNCHANGED resp
                 ELSE Responder(r, resposta)
    /\ UNCHANGED <<locals, fx, notion, disk, drive, authv>>

\* ObterObraId with the Submitter resolved before the work site is looked up
ObterObraIdTardio(r) ==
    /\ pc[r] = "obter_obra_id"
    /\ usuarios' = Append(usuarios, req[r].login)
    /\ fx' = [fx EXCEPT ![r].usuarios = @ + 1]
    /\ \E outcome \in QueryOutcomes :
          LET id == ObterObraIdResult(req[r].obra, outcome)
          IN  /\ obra_id' = [obra_id EXCEPT ![r] = id]
              /\ consulta' = [consulta EXCEPT ![r] = outcome]
              /\ IF id = NoId
                 THEN Responder(r, Erro(400, "Obra nao encontrada"))
                 ELSE pc' = [pc EXCEPT ![r] = "gerar_titulo"] /\ UNCHANGED resp
    /\ UNCHANGED <<req, titulo, usuario_id, idx, link, links_fotos, enviados,
                   obras, preCount, apontamentos, disk, drive, authv>>

\* l.176-178
ObterObraId(r) ==
    /\ pc[r] = "obter_obra_id"
    /\ \E outcome \in QueryOutcomes :
          LET id == ObterObraIdResult(req[r].obra, outcome)
          IN  /\ obra_id' = [obra_id EXCEPT ![r] = id]
              /\ consulta' = [consulta EXCEPT ![r] = outcome]
              /\ IF id = NoId
                 THEN Responder(r, Erro(400, "Obra nao encontrada"))
                 ELSE pc' = [pc EXCEPT ![r] = "gerar_titulo"] /\ UNCHANGED resp
    /\ UNCHANGED <<req, titulo, usuario_id, idx, link, links_fotos, enviados,
                   fx, notion, disk, drive, authv>>

\* The steps of a request between its count (l.149-150) and its create-record
\* call (l.209)
Contado == {"obter_usuario", "criar_usuario", "anexos", "makedirs", "escrever", "upload",
            "cleanup", "remove", "criar_pagina"}

\* GerarTitulo under a per-work-site lock held from the count to the create:
\* it waits while another request of the same work site has counted and not
\* yet created its Record
GerarTituloComTrava(r) ==
    /\ pc[r] = "gerar_titulo"
    /\ \A s \in Reqs \ {r} : ~(pc[s] \in Contado /\ obra_id[s] = obra_id[r])
    /\ \E outcome \in QueryOutcomes :
          /\ titulo' = [titulo EXCEPT ![r] = GerarTituloResult(req[r].obra, obra_id[r], outcome)]
          /\ consulta' = [consulta EXCEPT ![r] = outcome]
    /\ pc' = [pc EXCEPT ![r] = "obter_usuario"]
    /\ UNCHANGED <<req, resp, obra_id, usuario_id, idx, link, links_fotos,
                   enviados, fx, notion, disk, drive, authv>>

\* l.180
GerarTitulo(r) ==
    /\ pc[r] = "gerar_titulo"
    /\ \E outcome \in QueryOutcomes :
          /\ titulo' = [titulo EXCEPT ![r] = GerarTituloResult(req[r].obra, obra_id[r], outcome)]
          /\ consulta' = [consulta EXCEPT ![r] = outcome]
    /\ pc' = [pc EXCEPT ![r] = "obter_usuario"]
    /\ UNCHANGED <<req, resp, obra_id, usuario_id, idx, link, links_fotos,
                   enviados, fx, notion, disk, drive, authv>>

\* ObterUsuarioPorLogin that ignores the rows of a 200 answer and always creates
ObterUsuarioSempreCria(r) ==
    /\ pc[r] = "obter_usuario"
    /\ \E outcome \in QueryOutcomes :
          /\ consulta' = [consulta EXCEPT ![r] = outcome]
          /\ IF outcome = "raise"
             THEN /\ pc' = [pc EXCEPT ![r] = "anexos"]
                  /\ usuario_id' = [usuario_id EXCEPT ![r] = NoId]
             ELSE /\ pc' = [pc EXCEPT ![r] = "criar_usuario"]
                  /\ UNCHANGED usuario_id
    /\ UNCHANGED <<req, resp, obra_id, titulo, idx, link, links_fotos, enviados,
                   fx, notion, disk, drive, authv>>

\* l.181, l.118-122 and l.129-131: the query of obter_usuario_por_login
ObterUsuarioPorLogin(r) ==
    /\ pc[r] = "obter_usuario"
    /\ \E outcome \in QueryOutcomes :
          LET resultados == QueryNotionDatabase(TitleEquals(usuarios, req[r].login), outcome)
          IN  /\ consulta' = [consulta EXCEPT ![r] = outcome]
              /\ IF outcome = "raise"
                 THEN /\ pc' = [pc EXCEPT ![r] = "anexos"]
                      /\ usuario_id' = [usuario_id EXCEPT ![r] = NoId]
                 ELSE IF resultados # <<>>
                 THEN /\ pc' = [pc EXCEPT ![r] = "anexos"]
                      /\ usuario_id' = [usuario_id EXCEPT ![r] = resultados[1]]
                 ELSE /\ pc' = [pc EXCEPT ![r] = "criar_usuario"]
                      /\ UNCHANGED usuario_id
    /\ UNCHANGED <<req, resp, obra_id, titulo, idx, link, links_fotos, enviados,
                   fx, notion, disk, drive, authv>>

\* l.123-131: notion.pages.create on NOTION_DB_USUARIOS succeeds or raises
CriarUsuario(r) ==
    /\ pc[r] = "criar_usuario"
    /\ \/ /\ usuarios' = Append(usuarios, req[r].login)
          /\ usuario_id' = [usuario_id EXCEPT ![r] = Len(usuarios) + 1]
          /\ fx' = [fx EXCEPT ![r].usuarios = @ + 1]
       \/ /\ usuario_id' = [usuario_id EXCEPT ![r] = NoId]
          /\ UNCHANGED <<usuarios, fx>>
    /\ pc' = [pc EXCEPT ![r] = "anexos"]
    /\ consulta' = [consulta EXCEPT ![r] = "none"]
    /\ UNCHANGED <<req, resp, obra_id, titulo, idx, link, links_fotos, enviados,
                   obras, preCount, apontamentos, disk, drive, authv>>


\* --------------------------------------------------------- upload_para_drive
\* f"Foto: {link}" with link = f"https://drive.google.com/file/d/{file_id}/view"
\* (l.104, l.192)
LinkLine(file_id) == <<"Foto: ", "https://drive.google.com/file/d/", ToString(file_id), "/view">>

\* "\n".join(lines) (l.206-207)
RECURSIVE JoinNL(_)
JoinNL(lines) ==
    IF lines = <<>> THEN <<>>
    ELSE IF Len(lines) = 1 THEN lines[1]
    ELSE lines[1] \o <<"\n">> \o JoinNL(Tail(lines))

\* upload_para_drive returns `file_id`'s link (NoId: returns None) and the
\* loop of l.186-192 goes to the next attachment.
Retornar(r, file_id) ==
    /\ links_fotos' = [links_fotos EXCEPT ![r] =
                          IF file_id # NoId THEN Append(@, LinkLine(file_id)) ELSE @]
    /\ link' = [link EXCEPT ![r] = NoId]
    /\ idx' = [idx EXCEPT ![r] = @ + 1]
    /\ pc' = [pc EXCEPT ![r] = "anexos"]

\* requests.get (l.88-93): status 200, another status, or an exception
\* (timeout, connection error)
GetOutcomes == {"200", "non200", "raise"}

\* l.88-93 for the attachment at idx[r]
Baixar(r) ==
    /\ fx' = [fx EXCEPT ![r].downloads = @ + 1]
    /\ \E outcome \in GetOutcomes :
          IF outcome = "200"
          THEN /\ pc' = [pc EXCEPT ![r] = "escrever"]
               /\ UNCHANGED <<idx, link, links_fotos, enviados>>
          ELSE /\ Retornar(r, NoId)
               /\ enviados' = [enviados EXCEPT ![r] = Append(@, NoId)]

\* l.186-188 and, for an attachment with a filename, l.74-93: the loop head,
\* the test of l.82 and, when the directory exists, the download
ProximoAnexo(r) ==
    /\ pc[r] = "anexos"
    /\ IF idx[r] > Len(req[r].atts)
       THEN /\ pc' = [pc EXCEPT ![r] = "criar_pagina"]
            /\ UNCHANGED <<idx, link, links_fotos, enviados, fx>>
       ELSE IF req[r].atts[idx[r]] = NoName
       THEN /\ Retornar(r, NoId)
            /\ enviados' = [enviados EXCEPT ![r] = Append(@, NoId)]
            /\ UNCHANGED fx
       ELSE IF ~dirExists
       THEN /\ pc' = [pc EXCEPT ![r] = "makedirs"]
            /\ UNCHANGED <<idx, link, links_fotos, enviados, fx>>
       ELSE Baixar(r)
    /\ consulta' = [consulta EXCEPT ![r] = "none"]
    /\ UNCHANGED <<req, resp, obra_id, titulo, usuario_id, notion, disk, drive, authv>>

\* l.83-93: os.makedirs raises FileExistsError when the directory has been
\* created since the test of l.82
MakeDirs(r) ==
    /\ pc[r] = "makedirs"
    /\ IF dirExists
       THEN /\ Retornar(r, NoId)
            /\ enviados' = [enviados EXCEPT ![r] = Append(@, NoId)]
            /\ UNCHANGED <<fx, dirExists>>
       ELSE /\ dirExists' = TRUE
            /\ Baixar(r)
    /\ UNCHANGED <<req, resp, obra_id, titulo, usuario_id, consulta, notion, arquivos, drive, authv>>

Caminho(r) == Basename(req[r].atts[idx[r]])

\* l.95-97: the downloaded bytes are written to the scratch path
EscreverArquivo(r) ==
    /\ pc[r] = "escrever"
    /\ arquivos' = [arquivos EXCEPT ![Caminho(r)] = r]
    /\ fx' = [fx EXCEPT ![r].escritas = @ + 1]
    /\ pc' = [pc EXCEPT ![r] = "upload"]
    /\ UNCHANGED <<req, resp, locals, notion, dirExists, drive, authv>>

\* DriveUpload without the try/except of l.75 and l.112-114: a failed upload
\* escapes to the handler of l.216-218.
DriveUploadSemTry(r) ==
    /\ pc[r] = "upload"
    /\ \/ /\ arquivos[Caminho(r)] # 0
          /\ drive' = Append(drive, [name |-> Caminho(r), conteudo |-> arquivos[Caminho(r)]])
          /\ fx' = [fx EXCEPT ![r].uploads = @ + 1]
          /\ link' = [link EXCEPT ![r] = Len(drive) + 1]
          /\ enviados' = [enviados EXCEPT ![r] = Append(@, Len(drive) + 1)]
          /\ pc' = [pc EXCEPT ![r] = "cleanup"]
          /\ UNCHANGED <<idx, links_fotos, resp>>
       \/ /\ Responder(r, Erro(500, "HttpError"))
          /\ UNCHANGED <<idx, link, links_fotos, enviados, drive, fx>>
    /\ UNCHANGED <<req, obra_id, titulo, usuario_id, consulta, notion, disk, authv>>

\* l.98-105: os.path.getsize and MediaFileUpload raise when the scratch file
\* is gone; files().create(...).execute() succeeds or raises
DriveUpload(r) ==
    /\ pc[r] = "upload"
    /\ \/ /\ arquivos[Caminho(r)] # 0
          /\ drive' = Append(drive, [name |-> Caminho(r), conteudo |-> arquivos[Caminho(r)]])
          /\ fx' = [fx EXCEPT ![r].uploads = @ + 1]
          /\ link' = [link EXCEPT ![r] = Len(drive) + 1]
          /\ enviados' = [enviados EXCEPT ![r] = Append(@, Len(drive) + 1)]
          /\ pc' = [pc EXCEPT ![r] = "cleanup"]
          /\ UNCHANGED <<idx, links_fotos>>
       \/ /\ Retornar(r, NoId)
          /\ enviados' = [enviados EXCEPT ![r] = Append(@, NoId)]
          /\ UNCHANGED <<drive, fx>>
    /\ UNCHANGED <<req, resp, obra_id, titulo, usuario_id, consulta, notion, disk, authv>>

\* l.108: if os.path.exists(caminho)
CleanupExists(r) ==
    /\ pc[r] = "cleanup"
    /\ IF arquivos[Caminho(r)] # 0
       THEN pc' = [pc EXCEPT ![r] = "remove"] /\ UNCHANGED <<idx, link, links_fotos>>
       ELSE Retornar(r, link[r])
    /\ UNCHANGED <<req, resp, obra_id, titulo, usuario_id, consulta, enviados, fx, notion,
                   disk, drive, authv>>

\* l.109-114: os.remove raises FileNotFoundError when the file has been
\* removed since the test of l.108, and upload_para_drive returns None
CleanupRemove(r) ==
    /\ pc[r] = "remove"
    /\ IF arquivos[Caminho(r)] # 0
       THEN /\ arquivos' = [arquivos EXCEPT ![Caminho(r)] = 0]
            /\ Retornar(r, link[r])
       ELSE /\ Retornar(r, NoId)
            /\ UNCHANGED arquivos
    /\ UNCHANGED <<req, resp, obra_id, titulo, usuario_id, consulta, enviados, fx, notion,
                   dirExists, drive, authv>>

\* ------------------------------------------------------ the create-record call
\* Propriedades without the test of l.203: "Resp" is set whatever usuario_id is
PropriedadesRespSempre(r) ==
    [titulo |-> titulo[r],
     obras  |-> <<obra_id[r]>>,
     resp   |-> <<usuario_id[r]>>,
     fotos  |-> IF links_fotos[r] # <<>> THEN JoinNL(links_fotos[r]) ELSE None,
     docs   |-> IF links_fotos[r] # <<>> THEN JoinNL(links_fotos[r]) ELSE None,
     de     |-> r]

\* l.194-207: the properties of the Record ("Resp", "Fotos" and "Docs" only
\* when there is a value)
Propriedades(r) ==
    [titulo |-> titulo[r],
     obras  |-> <<obra_id[r]>>,
     resp   |-> IF usuario_id[r] # NoId THEN <<usuario_id[r]>> ELSE <<>>,
     fotos  |-> IF links_fotos[r] # <<>> THEN JoinNL(links_fotos[r]) ELSE None,
     docs   |-> IF links_fotos[r] # <<>> THEN JoinNL(links_fotos[r]) ELSE None,
     de     |-> r]

\* CriarPagina that issues the create-record call again after it succeeded
CriarPaginaDuas(r) ==
    /\ pc[r] = "criar_pagina"
    /\ \/ /\ apontamentos' = Append(Append(apontamentos, Propriedades(r)), Propriedades(r))
          /\ fx' = [fx EXCEPT ![r].paginas = @ + 2, ![r].criar = @ + 2]
          /\ Responder(r, [status |-> 200,
                           body |-> <<"OK", ToString(preCount + Len(apontamentos) + 2)>>])
       \/ /\ Responder(r, Erro(500, "APIResponseError"))
          /\ fx' = [fx EXCEPT ![r].criar = @ + 1]
          /\ UNCHANGED apontamentos
    /\ UNCHANGED <<req, locals, obras, usuarios, preCount, disk, drive, authv>>

\* CriarPagina in which reading pagina['id'] (l.213) may raise after the
\* create succeeded
CriarPaginaFalhaDepois(r) ==
    /\ pc[r] = "criar_pagina"
    /\ \/ /\ apontamentos' = Append(apontamentos, Propriedades(r))
          /\ fx' = [fx EXCEPT ![r].paginas = @ + 1, ![r].criar = @ + 1]
          /\ \/ Responder(r, [status |-> 200,
                              body |-> <<"OK", ToString(preCount + Len(apontamentos) + 1)>>])
             \/ Responder(r, Erro(500, "KeyError"))
       \/ /\ Responder(r, Erro(500, "APIResponseError"))
          /\ fx' = [fx EXCEPT ![r].criar = @ + 1]
          /\ UNCHANGED apontamentos
    /\ UNCHANGED <<req, locals, obras, usuarios, preCount, disk, drive, authv>>

\* CriarPagina without the try/except of l.158 and l.216-218: the exception
\* escapes the view and Flask answers with its own 500 page
CriarPaginaSemExcept(r) ==
    /\ pc[r] = "criar_pagina"
    /\ \/ /\ apontamentos' = Append(apontamentos, Propriedades(r))
          /\ fx' = [fx EXCEPT ![r].paginas = @ + 1, ![r].criar = @ + 1]
          /\ Responder(r, [status |-> 200,
                           body |-> <<"OK", ToString(preCount + Len(apontamentos) + 1)>>])
       \/ /\ Responder(r, [status |-> 500, body |-> <<"Internal Server Error">>])
          /\ fx' = [fx EXCEPT ![r].criar = @ + 1]
          /\ UNCHANGED apontamentos
    /\ UNCHANGED <<req, locals, obras, usuarios, preCount, disk, drive, authv>>

\* CriarPagina with the create-record call placed before the loop of l.186:
\* it is issued at the loop head as well
CriarPaginaCedo(r) ==
    /\ pc[r] \in {"anexos", "criar_pagina"}
    /\ \/ /\ apontamentos' = Append(apontamentos, Propriedades(r))
          /\ fx' = [fx EXCEPT ![r].paginas = @ + 1, ![r].criar = @ + 1]
          /\ IF pc[r] = "criar_pagina"
             THEN Responder(r, [status |-> 200,
                                body |-> <<"OK", ToString(preCount + Len(apontamentos) + 1)>>])
             ELSE UNCHANGED <<pc, resp>>
       \/ /\ Responder(r, Erro(500, "APIResponseError"))
          /\ fx' = [fx EXCEPT ![r].criar = @ + 1]
          /\ UNCHANGED apontamentos
    /\ UNCHANGED <<req, locals, obras, usuarios, preCount, disk, drive, authv>>

\* l.209-218: notion.pages.create on NOTION_DB_APONTAMENTOS succeeds (200 with
\* the new page's id) or raises (500 with the exception's text)
CriarPagina(r) ==
    /\ pc[r] = "criar_pagina"
    /\ \/ /\ apontamentos' = Append(apontamentos, Propriedades(r))
          /\ fx' = [fx EXCEPT ![r].paginas = @ + 1, ![r].criar = @ + 1]
          /\ Responder(r, [status |-> 200,
                           body |-> <<"OK", ToString(preCount + Len(apontamentos) + 1)>>])
       \/ /\ Responder(r, Erro(500, "APIResponseError"))
          /\ fx' = [fx EXCEPT ![r].criar = @ + 1]
          /\ UNCHANGED apontamentos
    /\ UNCHANGED <<req, locals, obras, usuarios, preCount, disk, drive, authv>>

\* The handler has returned (l.165-178, l.214, l.218): its frame, and with
\* it every local, is gone.
Fim(r) ==
    /\ pc[r] = "done"
    /\ pc' = [pc EXCEPT ![r] = "fim"]
    /\ req' = [req EXCEPT ![r] = NoPayload]
    /\ resp' = [resp EXCEPT ![r] = NoResp]
    /\ obra_id' = [obra_id EXCEPT ![r] = NoId]
    /\ titulo' = [titulo EXCEPT ![r] = None]
    /\ usuario_id' = [usuario_id EXCEPT ![r] = NoId]
    /\ idx' = [idx EXCEPT ![r] = 1]
    /\ link' = [link EXCEPT ![r] = NoId]
    /\ links_fotos' = [links_fotos EXCEPT ![r] = <<>>]
    /\ enviados' = [enviados EXCEPT ![r] = <<>>]
    /\ consulta' = [consulta EXCEPT ![r] = "none"]
    /\ fx' = [fx EXCEPT ![r] = NoFx]
    /\ UNCHANGED <<notion, disk, drive, authv>>

\* ------------------------------------------------------------ specifications
Passo(r) ==
    \/ ObterObraId(r) \/ GerarTitulo(r) \/ ObterUsuarioPorLogin(r) \/ CriarUsuario(r)
    \/ ProximoAnexo(r) \/ MakeDirs(r) \/ EscreverArquivo(r) \/ DriveUpload(r)
    \/ CleanupExists(r) \/ CleanupRemove(r) \/ CriarPagina(r) \/ Fim(r)

\* Requests are handled concurrently (the server runs one thread per request).
Next == \E r \in Reqs : ReceberDados(r) \/ Passo(r)
Spec == Init /\ [][Next]_vars

\* Requests that do not overlap: one arrives when no other is being handled.
NextSeq == \E r \in Reqs : (Quieto /\ ReceberDados(r)) \/ Passo(r)
SpecSeq == Init /\ [][NextSeq]_vars


\* The token check of l.167-170 alone, on every header and body token of a
\* bounded length.
InitAuth ==
    /\ Parado
    /\ a_hdr \in {None} \cup TextsUpTo(MaxHdr)
    /\ a_tok \in {None} \cup TextsUpTo(MaxTok)
    /\ a_res = "pending"
    /\ SemFetch

TokenCheck ==
    /\ a_res = "pending"
    /\ a_res' = IF TokenRejected(a_hdr, a_tok) THEN "401" ELSE "pass"
    /\ UNCHANGED <<pc, req, resp, locals, fx, notion, disk, drive, a_hdr, a_tok, fetchv>>

AuthSpec == InitAuth /\ [][TokenCheck]_vars


\* --------------------------------------------- the download of one attachment
\* l.77-78: base_url and download_url = f"{base_url}?media_file={filename}"
BASE_URL == "https://kf.kobotoolbox.org/attachment/original"
DownloadUrl(filename) == <<BASE_URL, "?media_file=">> \o filename

\* l.46: os.getenv("KOBO_MEDIA_TOKEN", KOBO_TOKEN)
KOBO_MEDIA_TOKEN == IF k_media = None THEN KOBO_TOKEN ELSE k_media

\* l.86: headers = {'Authorization': f'Bearer {KOBO_TOKEN}'}; requests.get is
\* given no `auth`
DownloadAuth == <<"Bearer">> \o KOBO_TOKEN

\* What the environment may hold for an optional variable: not set, set to
\* the empty string, set to a value
EnvUser == {None, <<>>, <<"u">>}
EnvPass == {None, <<>>, <<"w">>}
EnvMedia == {None, <<>>, KOBO_TOKEN, <<"m">>}
\* An element of `_attachments`: its filename and its download_url, None or ''
\* when the payload gives none
Attachments == [filename : Filenames \cup {NoName},
                download_url : {None, <<>>, <<"https://kc.example/media/1">>}]

InitFetch ==
    /\ Parado
    /\ a_hdr = None /\ a_tok = None /\ a_res = "unused"
    /\ k_user \in EnvUser /\ k_pass \in EnvPass /\ k_media \in EnvMedia
    /\ d_att \in Attachments
    /\ d_get = NoGet

\* l.187-190 and l.77-88 for one attachment: attachment.get("filename") is the
\* only field read; an attachment without filename is skipped
Fetch ==
    /\ d_get = NoGet
    /\ d_att.filename # NoName
    /\ d_get' = [url |-> DownloadUrl(d_att.filename), auth |-> DownloadAuth]
    /\ UNCHANGED <<pc, req, resp, locals, fx, notion, disk, drive, a_hdr, a_tok, a_res,
                   k_user, k_pass, k_media, d_att>>

FetchSpec == InitFetch /\ [][Fetch]_vars


\* ===================================================================== claims
\* The Records request r has created, by id order
PaginasDe(r) ==
    LET De(i) == apontamentos[i].de = r IN SelectSeq([i \in 1..Len(apontamentos) |-> i], De)

\* text.split("\n"); a property that is not there has no line
RECURSIVE SplitNL(_)
SplitNL(t) ==
    LET cuts == {k \in 1..Len(t) : t[k] = "\n"}
    IN  IF cuts = {} THEN <<t>>
        ELSE LET k == CHOOSE c \in cuts : \A d \in cuts : c <= d
             IN  <<SubSeq(t, 1, k - 1)>> \o SplitNL(SubSeq(t, k + 1, Len(t)))
Linhas(t) == IF t = None THEN <<>> ELSE SplitNL(t)

Mandatorio == {"idle", "obter_obra_id", "done", "fim"}

\* C1: once the token check has passed and obter_obra_id has returned an id,
\* the handler never stops short of the create-record call: while it has not
\* answered it can take a step, and when it has answered the call was issued
\* exactly once, whatever failed before (title query, Submitter resolution,
\* any attachment); the Record of a 200 carries the title computed (the
\* fallback included), no Submitter relation when there is no id, and exactly
\* the links produced, possibly none.
C1Theorem ==
    \A r \in Reqs :
        /\ pc[r] \notin Mandatorio => ENABLED Passo(r)
        /\ (pc[r] = "done" /\ obra_id[r] # NoId) =>
              /\ fx[r].criar = 1
              /\ resp[r].status \in {200, 500}
              /\ resp[r].status = 200 =>
                    /\ Len(PaginasDe(r)) = 1
                    /\ LET rec == apontamentos[PaginasDe(r)[1]]
                       IN  /\ rec.titulo = titulo[r]
                           /\ rec.obras = <<obra_id[r]>>
                           /\ (usuario_id[r] = NoId => rec.resp = <<>>)
                           /\ Linhas(rec.fotos) = links_fotos[r]

\* C1 witness: a 200 after the title query failed (fallback 001 although 100
\* Records exist), the Submitter was not resolved, and three attachments
\* failed: one without filename, one download or upload failure after a
\* scratch-file write, none linked.
C1Witness ==
    \E r \in Reqs :
        /\ pc[r] = "done" /\ resp[r].status = 200
        /\ preCount = 100 /\ titulo[r] = <<"o1", " - ", 0, 0, 1>>
        /\ usuario_id[r] = NoId
        /\ Len(req[r].atts) >= 3 /\ \E k \in 1..Len(req[r].atts) : req[r].atts[k] = NoName
        /\ fx[r].downloads >= 2 /\ fx[r].escritas >= 1
        /\ links_fotos[r] = <<>>

\* C2 (as claimed): the photo-link text of the created Record has exactly one
\* line per attachment whose download and upload both succeeded, in payload
\* order.
C2Original ==
    \A r \in Reqs :
        (pc[r] = "done" /\ resp[r].status = 200) =>
            LET rec == apontamentos[PaginasDe(r)[1]]
                IsId(x) == x # NoId
                ok == SelectSeq(enviados[r], IsId)
            IN  /\ Len(enviados[r]) = Len(req[r].atts)
                /\ Linhas(rec.fotos) = [k \in 1..Len(ok) |-> LinkLine(ok[k])]

\* C3: a request issues the create-record call at most once and at most one
\* Record of the record collection comes from it.
C3Theorem ==
    \A r \in Reqs : fx[r].criar <= 1 /\ fx[r].paginas <= 1 /\ Len(PaginasDe(r)) <= 1

\* C3 witness: every request has been answered 200 and each has its one Record
C3Witness ==
    /\ \A r \in Reqs : pc[r] \in {"done", "fim"} /\ Len(PaginasDe(r)) = 1
    /\ \E r \in Reqs : pc[r] = "done" /\ resp[r].status = 200 /\ fx[r].paginas = 1

SemObra(r) == pc[r] = "done" /\ req[r].kind \in {"object", "empty"} /\ req[r].obra = ""

\* C4 (as claimed): every payload without a work-site name is answered 400
\* and creates neither a Record nor a Submitter.
C4Original ==
    \A r \in Reqs :
        SemObra(r) => resp[r].status = 400 /\ fx[r].usuarios = 0 /\ fx[r].paginas = 0

\* C4 (amended): a JSON-object payload without a work-site name is answered
\* 400, or 401 when the token check, which comes first, rejects the request;
\* in both cases the request creates neither a Record nor a Submitter.
C4Amended ==
    \A r \in Reqs :
        SemObra(r) =>
            /\ resp[r].status \in {400, 401}
            /\ fx[r].usuarios = 0 /\ fx[r].paginas = 0 /\ fx[r].criar = 0
            /\ PaginasDe(r) = <<>>

\* C4 witness: a payload with a login and attachments but no work-site name,
\* answered 400
C4Witness ==
    \E r \in Reqs :
        /\ SemObra(r) /\ req[r].kind = "object" /\ req[r].atts # <<>>
        /\ resp[r] = Erro(400, "Campo obra obrigatorio")

SemPar(r) ==
    /\ pc[r] = "done" /\ req[r].kind = "object"
    /\ \A i \in 1..Len(obras) : obras[i] # req[r].obra

\* C5 (as claimed): every payload whose work-site name matches no title is
\* answered 400, creates no Record, and no WorkSite is ever created.
C5Original ==
    /\ obras = <<"o1">>
    /\ \A r \in Reqs : SemPar(r) => resp[r].status = 400 /\ PaginasDe(r) = <<>>

\* C5 (amended): a payload whose work-site name matches no title is answered
\* 400, or 401 when the token check, which comes first, rejects the request;
\* no Record is created for it and the work-site collection is never written.
C5Amended ==
    /\ obras = <<"o1">>
    /\ \A r \in Reqs :
          SemPar(r) =>
              /\ resp[r].status \in {400, 401}
              /\ fx[r].paginas = 0 /\ fx[r].criar = 0 /\ PaginasDe(r) = <<>>

\* C5 witness: the name "o2", which is no work site's title, answered 400
\* by the lookup
C5Witness ==
    \E r \in Reqs :
        /\ SemPar(r) /\ req[r].obra = "o2"
        /\ resp[r] = Erro(400, "Obra nao encontrada")


\* Stripping a literal 'Bearer ' prefix
StripPrefix(h) == IF h # <<>> /\ Head(h) = BEARER THEN Tail(h) ELSE h
HeaderToken == IF Truthy(a_hdr) THEN StripPrefix(a_hdr) ELSE None
PresentToken == IF Truthy(HeaderToken) THEN HeaderToken ELSE a_tok

\* C6 (as claimed): a header token equal to the secret passes, no token
\* anywhere passes, and a token that is present (in the header or, when the
\* header yields none, in the body) and differs from the secret is answered
\* 401.
C6Original ==
    a_res # "pending" =>
        /\ HeaderToken = KOBO_TOKEN => a_res = "pass"
        /\ (~Truthy(HeaderToken) /\ ~Truthy(a_tok)) => a_res = "pass"
        /\ (Truthy(PresentToken) /\ PresentToken # KOBO_TOKEN) => a_res = "401"

\* The Records related to work site oid (all of them, not one page)
NumRelated(oid) ==
    (IF oid = 1 THEN preCount ELSE 0)
    + Cardinality({i \in 1..Len(apontamentos) : apontamentos[i].obras = <<oid>>})

\* n < 1000 written with three digits
Pad3(n) == <<n \div 100, (n \div 10) % 10, n % 10>>

\* C7 (as claimed): right after gerar_titulo, with N Records related to the
\* work site, the title is "<name> - <N+1 on three digits>", or
\* "<name> - 001" (the count query failed).
C7Original ==
    \A r \in Reqs :
        pc[r] = "obter_usuario" =>
            \/ titulo[r] = <<req[r].obra, " - ">> \o Pad3(NumRelated(obra_id[r]) + 1)
            \/ titulo[r] = <<req[r].obra, " - ", 0, 0, 1>>

ComTitulo(db, t) == {i \in 1..Len(db) : db[i] = t}
DepoisDoUsuario(r) == pc[r] \notin {"idle", "obter_obra_id", "gerar_titulo", "obter_usuario",
                                    "criar_usuario", "fim"} /\ obra_id[r] # NoId

\* C8 (as claimed): once a request has run obter_usuario_por_login, exactly
\* one Submitter entity with its login exists and the request holds the id of
\* that entity (requests do not overlap).
C8Original ==
    \A r \in Reqs :
        DepoisDoUsuario(r) =>
            /\ Cardinality(ComTitulo(usuarios, req[r].login)) = 1
            /\ usuario_id[r] \in ComTitulo(usuarios, req[r].login)

\* C8 (amended): for requests that do not overlap, one call of
\* obter_usuario_por_login creates at most one Submitter entity, and only
\* after its query returned no rows; a call that finds a row returns the id of
\* the first entity with that title and creates nothing; when the query was
\* answered 200 and the call creates an entity, that entity is afterwards the
\* only one with its title and its id is returned.  (A query answered with
\* another status is read as no rows and adds an entity whatever exists; a
\* query or create that raises returns no id.)
C8Amended ==
    [][\A r \in Reqs :
          LET login == req[r].login
              novo == Append(usuarios, login)
          IN  /\ usuarios' # usuarios =>
                    \E s \in Reqs : pc[s] = "criar_usuario" /\ usuarios' = Append(usuarios, req[s].login)
              /\ (pc[r] = "obter_usuario" /\ pc'[r] = "anexos" /\ usuario_id'[r] # NoId) =>
                    /\ usuarios' = usuarios
                    /\ usuario_id'[r] \in ComTitulo(usuarios, login)
                    /\ \A i \in ComTitulo(usuarios, login) : usuario_id'[r] <= i
              /\ (pc[r] = "obter_usuario" /\ pc'[r] = "criar_usuario") =>
                    (consulta'[r] = "ok" => ComTitulo(usuarios, login) = {})
              /\ (pc[r] = "criar_usuario" /\ pc'[r] = "anexos") =>
                    /\ usuarios' \in {usuarios, novo}
                    /\ usuario_id'[r] # NoId <=> usuarios' = novo
                    /\ usuarios' = novo => usuario_id'[r] = Len(novo)
                    /\ (consulta[r] = "ok" /\ usuarios' = novo) =>
                          ComTitulo(usuarios', login) = {usuario_id'[r]}
    ]_vars

\* C8 witness: a request holds the id of the single entity with its login,
\* which an earlier request created and related its Record to
C8Witness ==
    \E r \in Reqs :
        /\ DepoisDoUsuario(r) /\ fx[r].usuarios = 0
        /\ usuarios = <<req[r].login>> /\ usuario_id[r] = 1
        /\ \E i \in 1..Len(apontamentos) :
              apontamentos[i].de # r /\ apontamentos[i].resp = <<1>>

\* C9 (as claimed): a body that is malformed JSON or absent is answered 400
\* with the missing-JSON-payload error.
C9Original ==
    \A r \in Reqs :
        (pc[r] = "done" /\ req[r].kind \in {"malformed", "absent"}) =>
            resp[r] = Erro(400, "Dados JSON ausentes")

\* C10: a request answered 400 or 401 has performed no side effect: no
\* Submitter or Record create (nor create call), no download, no scratch-file
\* write, no upload.
C10Theorem ==
    \A r \in Reqs :
        resp[r].status \in {400, 401} => fx[r] = NoFx /\ PaginasDe(r) = <<>>

\* C10 witness: two requests answered, one 401 by the token check and one 400
\* by the work-site lookup, while a Submitter and a Record exist only from
\* neither of them
C10Witness ==
    \E r, s \in Reqs :
        /\ pc[r] = "done" /\ resp[r].status = 401 /\ req[r].atts # <<>>
        /\ pc[s] = "done" /\ resp[s] = Erro(400, "Obra nao encontrada")
        /\ fx[r] = NoFx /\ fx[s] = NoFx

\* C11: every Record has exactly one WorkSite relation, the id obter_obra_id
\* resolved for its request (the page of NOTION_DB_OBRAS titled with the
\* request's work-site name), and has a Submitter relation if and only if
\* obter_usuario_por_login returned an id in that request, then to that id.
C11Theorem ==
    /\ \A i \in 1..Len(apontamentos) :
          /\ Len(apontamentos[i].obras) = 1 /\ apontamentos[i].obras[1] \in 1..Len(obras)
          /\ Len(apontamentos[i].resp) <= 1
    /\ \A r \in Reqs :
          (pc[r] = "done" /\ PaginasDe(r) # <<>>) =>
              LET rec == apontamentos[PaginasDe(r)[1]]
              IN  /\ rec.obras = <<obra_id[r]>>
                  /\ obras[obra_id[r]] = req[r].obra
                  /\ rec.resp # <<>> <=> usuario_id[r] # NoId
                  /\ usuario_id[r] # NoId =>
                        /\ rec.resp = <<usuario_id[r]>>
                        /\ usuario_id[r] \in ComTitulo(usuarios, req[r].login)

\* C11 witness: a Record with a Submitter relation (its request has just been
\* answered) next to a Record without one
C11Witness ==
    \E r \in Reqs :
        /\ pc[r] = "done" /\ resp[r].status = 200 /\ usuario_id[r] # NoId
        /\ apontamentos[PaginasDe(r)[1]].resp = <<usuario_id[r]>>
        /\ \E i \in 1..Len(apontamentos) :
              apontamentos[i].de # r /\ apontamentos[i].resp = <<>>

\* C12: nothing serializes count-then-create: while a request of a work site
\* stands between its count and its create-record call, another request of
\* the same work site is never kept from counting (gerar_titulo) nor from
\* creating its Record, so both can count the same Records.
C12Theorem ==
    \A r, s \in Reqs :
        (r # s /\ pc[s] \in Contado /\ obra_id[r] = obra_id[s] /\ obra_id[r] # NoId) =>
            /\ pc[r] = "gerar_titulo" => ENABLED GerarTitulo(r)
            /\ pc[r] = "criar_pagina" => ENABLED CriarPagina(r)

\* C12 witness: one Record existed, two requests counted it (both count
\* queries answered: the title is neither the fallback 001 nor the 003 a count
\* after the other's create gives) and two Records of the work site now carry
\* the same title with sequence number 002.
C12Witness ==
    /\ preCount = 1
    /\ \E i, j \in 1..Len(apontamentos) :
          /\ i < j /\ apontamentos[i].de # apontamentos[j].de
          /\ apontamentos[i].obras = apontamentos[j].obras
          /\ apontamentos[i].titulo = <<"o1", " - ", 0, 0, 2>>
          /\ apontamentos[j].titulo = <<"o1", " - ", 0, 0, 2>>

\* C13 (as claimed): apart from the sequence numbers, overlapping requests
\* behave as in some sequential execution; in particular a request never
\* touches another's scratch file (the file it uploads and deletes is the one
\* it wrote, and the Drive file it created holds what it downloaded) and two
\* requests never create two Submitter entities for one login (a request
\* whose answered query found no entity creates one only while none exists).
C13Original ==
    \A r \in Reqs :
        /\ pc[r] \in {"upload", "cleanup", "remove"} => arquivos[Caminho(r)] = r
        /\ \A k \in 1..Len(enviados[r]) :
              enviados[r][k] # NoId => drive[enviados[r][k]].conteudo = r
        /\ (pc[r] = "criar_usuario" /\ consulta[r] = "ok") =>
              ComTitulo(usuarios, req[r].login) = {}

\* C14 (as claimed): whenever upload_para_drive has returned (the request is
\* at the loop head, at the create-record call or answered), no scratch file
\* the request wrote exists any more, whether its upload succeeded or raised.
C14Original ==
    \A r \in Reqs :
        pc[r] \in {"anexos", "criar_pagina", "done"} =>
            \A b \in Basenames : arquivos[b] # r

\* C15: within one request the outbound operations come in a fixed order.  In
\* every step, for every request that has not returned: the count query comes
\* after the work-site query and the Submitter query after the count query;
\* nothing is created, downloaded or uploaded before the three queries; the
\* Submitter create is the first effect and happens at most once; a download
\* starts at the loop head only, for the attachment the loop stands at, each
\* attachment being downloaded and uploaded at most once; an upload is for the
\* attachment just downloaded; the loop moves on by one attachment and only
\* when upload_para_drive returns; the create-record call comes once, after the
\* last attachment, and nothing is downloaded, uploaded or created after it.
C15Theorem ==
    [][\A r \in Reqs :
          LET f == fx[r]
              g == fx'[r]
          IN  pc'[r] # "fim" =>
                /\ pc'[r] = "gerar_titulo" => pc[r] \in {"obter_obra_id", "gerar_titulo"}
                /\ pc'[r] = "obter_usuario" => pc[r] \in {"gerar_titulo", "obter_usuario"}
                /\ pc'[r] = "criar_usuario" => pc[r] \in {"obter_usuario", "criar_usuario"}
                /\ pc[r] \in {"idle", "obter_obra_id", "gerar_titulo", "obter_usuario"} =>
                      f = NoFx /\ g = NoFx
                /\ g.usuarios # f.usuarios =>
                      pc[r] = "criar_usuario" /\ f = NoFx /\ g.usuarios = 1
                /\ g.downloads # f.downloads =>
                      /\ pc[r] \in {"anexos", "makedirs"} /\ g.downloads = f.downloads + 1
                      /\ idx[r] <= Len(req[r].atts) /\ req[r].atts[idx[r]] # NoName
                      /\ f.downloads < idx[r] /\ f.uploads < idx[r] /\ f.criar = 0
                /\ g.uploads # f.uploads =>
                      /\ pc[r] = "upload" /\ g.uploads = f.uploads + 1
                      /\ f.uploads < f.downloads /\ idx'[r] = idx[r] /\ f.criar = 0
                /\ idx'[r] # idx[r] => idx'[r] = idx[r] + 1 /\ pc'[r] = "anexos"
                /\ g.criar # f.criar =>
                      /\ pc[r] = "criar_pagina" /\ pc'[r] = "done" /\ f.criar = 0
                      /\ idx[r] = Len(req[r].atts) + 1
                /\ f.criar > 0 => g = f
    ]_vars

\* C15 witness: a request answered 200 after its three queries, one Submitter
\* create, three attachments each downloaded and uploaded, and the create
C15Witness ==
    \E r \in Reqs :
        /\ pc[r] = "done" /\ resp[r].status = 200
        /\ fx[r] = [usuarios |-> 1, paginas |-> 1, criar |-> 1, downloads |-> 3,
                    escritas |-> 3, uploads |-> 3]
        /\ Len(links_fotos[r]) = 3

\* C16 (as claimed): the download authenticates with digest auth when both
\* the configured username and password are set; otherwise with the bearer
\* media token when it is configured and differs from the primary token;
\* otherwise with the primary bearer token.
C16Original ==
    d_get # NoGet =>
        d_get.auth = IF Truthy(k_user) /\ Truthy(k_pass)
                     THEN <<"Digest">> \o k_user \o k_pass
                     ELSE IF Truthy(KOBO_MEDIA_TOKEN) /\ KOBO_MEDIA_TOKEN # KOBO_TOKEN
                     THEN <<"Bearer">> \o KOBO_MEDIA_TOKEN
                     ELSE <<"Bearer">> \o KOBO_TOKEN

\* C17 (as claimed): the download goes to the attachment's explicit download
\* URL when the payload gives one, and only otherwise to
\* <mediaEndpointBase>?media_file=<filename>.
C17Original ==
    d_get # NoGet =>
        d_get.url = IF Truthy(d_att.download_url)
                    THEN d_att.download_url
                    ELSE <<BASE_URL, "?media_file=">> \o d_att.filename

\* The exceptions that reach the handler of l.216-218
Excecoes == {"BadRequest", "UnsupportedMediaType", "AttributeError", "APIResponseError"}

\* C18: an exception no helper handles is answered 500 with the exception's
\* message and the request has no Record: a create-record call that raises
\* (the only 500 once the work site is resolved) whatever the request did
\* before, and the AttributeError of a payload that is no JSON object; every
\* 500 carries the message of the exception and comes with no Record.
C18Theorem ==
    \A r \in Reqs :
        pc[r] = "done" =>
            /\ (fx[r].criar > 0 /\ fx[r].paginas = 0) =>
                  resp[r] = Erro(500, "APIResponseError") /\ PaginasDe(r) = <<>>
            /\ (req[r].kind = "array" /\ resp[r].status # 401) =>
                  resp[r] = Erro(500, "AttributeError") /\ fx[r] = NoFx
            /\ resp[r].status = 500 =>
                  /\ \E e \in Excecoes : resp[r] = Erro(500, e)
                  /\ PaginasDe(r) = <<>> /\ fx[r].paginas = 0
                  /\ obra_id[r] # NoId => fx[r].criar = 1

\* C18 witness: the create-record call raised after a Submitter was created
\* and an attachment uploaded: 500, a Drive file and a Submitter, no Record
C18Witness ==
    \E r \in Reqs :
        /\ pc[r] = "done" /\ resp[r] = Erro(500, "APIResponseError")
        /\ fx[r].usuarios = 1 /\ fx[r].uploads >= 1 /\ fx[r].criar = 1
        /\ drive # <<>> /\ PaginasDe(r) = <<>>

\* C19: a query answered with a status other than 200 is read as no rows and
\* raises nothing, whatever the database holds: the work-site lookup then
\* answers 400 "not found" with nothing done, gerar_titulo gives sequence
\* number 001, and obter_usuario_por_login goes on to create a Submitter
\* (never returning an existing id, never giving up).
C19Theorem ==
    \A r \in Reqs :
        consulta[r] = "non200" =>
            /\ pc[r] \in {"done", "obter_usuario", "criar_usuario"}
            /\ pc[r] = "done" =>
                  /\ resp[r] = Erro(400, "Obra nao encontrada")
                  /\ obra_id[r] = NoId /\ fx[r] = NoFx
            /\ pc[r] = "obter_usuario" => titulo[r] = <<req[r].obra, " - ", 0, 0, 1>>
            /\ pc[r] = "criar_usuario" => usuario_id[r] = NoId /\ ENABLED CriarUsuario(r)

\* C19 witness: the lookup of the existing work site "o1" was answered non-200
\* and the request got 400, while another request's count of the 100 Records
\* of that work site was answered non-200 and its title is "o1 - 001"
C19Witness ==
    \E r, s \in Reqs :
        /\ pc[s] = "done" /\ consulta[s] = "non200" /\ req[s].obra = "o1"
        /\ resp[s] = Erro(400, "Obra nao encontrada")
        /\ pc[r] = "obter_usuario" /\ consulta[r] = "non200" /\ preCount = 100
        /\ titulo[r] = <<"o1", " - ", 0, 0, 1>>

\* C20: a request is answered 200 exactly when its create-record call
\* succeeded, the `notion_page` of the 200 is the id of the Record that same
\* request created, and a request answered 400, 401 or 500 created no Record.
C20Theorem ==
    \A r \in Reqs :
        pc[r] = "done" =>
            /\ resp[r].status \in {200, 400, 401, 500}
            /\ resp[r].status = 200 <=> fx[r].paginas = 1
            /\ resp[r].status = 200 =>
                  /\ Len(PaginasDe(r)) = 1
                  /\ resp[r].body = <<"OK", ToString(preCount + PaginasDe(r)[1])>>
            /\ resp[r].status # 200 => PaginasDe(r) = <<>> /\ fx[r].paginas = 0

\* C20 witness: a request answered 200 with the id of its own Record, the
\* first of two, the other request having created its Record since
C20Witness ==
    \E r \in Reqs :
        /\ pc[r] = "done" /\ resp[r].status = 200
        /\ Len(apontamentos) = 2 /\ PaginasDe(r) = <<1>>
        /\ resp[r].body = <<"OK", ToString(preCount + 1)>>

====
